---- MODULE Spec2Model ----
(***************************************************************************)
(* A model of utils.py: the StepLR schedule, the Optimizer wrapper around  *)
(* a torch optimizer (step, clip, state_dict, load_state_dict), the        *)
(* pretrained-weight loader load_pretrain and the container transform      *)
(* to_long.                                                                *)
(*                                                                         *)
(* Learning rates are floats in the source; the model counts them in units *)
(* of 1e-6, so 1e-3 is 1000 and 1e-4 is 100.  A coefficient 1.0 is 1.      *)
(***************************************************************************)
EXTENDS Integers, Sequences, FiniteSets, TLC

VARIABLES
    coef_arg,      \* the coef argument the Optimizer constructor was given
    params_arg,    \* the params argument: [is_list, n]
    coef,          \* Optimizer.coef
    lr_func,       \* Optimizer.lr_func, or the StepLR under test
    clip_grads,    \* Optimizer.clip_grads
    clip_low,      \* Optimizer.clip_low  ([set, v]; the attribute may not exist)
    clip_high,     \* Optimizer.clip_high
    param_groups,  \* Optimizer.opt.param_groups: one [lr] per group
    opt_state,     \* Optimizer.opt.state: per group [step, used_lr]
    grads,         \* p.grad of every parameter, flattened over the groups
    ret,           \* the value the last call returned
    err,           \* the exception the last call raised, or "none"
    last,          \* the last call: its name and arguments
    steps,         \* the step calls so far: [epochs, rets], oldest first
    snap,          \* the snapshot the last state_dict() returned: [have, s]
    net,           \* load_pretrain: net.state_dict(), key -> tensor
    pretrain,      \* load_pretrain: pretrain_dict, key -> tensor
    net0,          \* load_pretrain: net's mapping before the call
    heap,          \* to_long: the objects, by address
    root,          \* to_long: the address of the argument
    heap0,         \* to_long: the objects before the call
    result         \* to_long: the address returned

optVars == <<coef_arg, params_arg, coef, clip_grads, clip_low, clip_high,
             param_groups, opt_state, grads, steps, snap>>
callVars == <<lr_func, ret, err, last>>
loadVars == <<net, pretrain, net0>>
longVars == <<heap, root, heap0, result>>
vars == <<optVars, callVars, loadVars, longVars>>

-----------------------------------------------------------------------------
\* Bounds of the model.

MaxGroups == 2       \* parameter groups handed to the constructor
MaxSteps == 2        \* step() calls in one run
MaxThresholds == 2   \* thresholds of a schedule under test
MaxThreshold == 2    \* largest threshold of a schedule under test
GradBound == 2       \* gradient elements range over -GradBound..GradBound and NaN
MaxGradLen == 2      \* elements of one gradient
MaxDim == 2          \* largest dimension of a tensor shape
MaxVal == 1          \* tensor contents range over 0..MaxVal
MaxObjects == 3      \* objects in the structure handed to to_long

SeqOf(S, lo, hi) == UNION {[1..n -> S] : n \in lo..hi}

-----------------------------------------------------------------------------
\* The hyperparameters Optimizer.__init__ hard-codes.

ConfigLr == <<1000, 100>>
ConfigLrEpochs == <<32>>
FarEpoch == 1000

-----------------------------------------------------------------------------
\* StepLR

NoStepLR == [made |-> FALSE, lr |-> <<>>, lr_epochs |-> <<>>]

\* StepLR.__init__ without its assert
StepLRInitUnchecked(lr, lr_epochs) ==
    [ok |-> TRUE, obj |-> [made |-> TRUE, lr |-> lr, lr_epochs |-> lr_epochs]]

\* StepLR.__init__: the assert, then the two fields
StepLRInit(lr, lr_epochs) ==
    IF Len(lr) - Len(lr_epochs) = 1
    THEN [ok |-> TRUE, obj |-> [made |-> TRUE, lr |-> lr, lr_epochs |-> lr_epochs]]
    ELSE [ok |-> FALSE, obj |-> NoStepLR]

\* the comparison of the scan, off by one
EpochBeforeInclusive(epoch, lr_epoch) == epoch <= lr_epoch

\* `if epoch < lr_epoch: break`
EpochBefore(epoch, lr_epoch) == epoch < lr_epoch

\* the for loop of StepLR.__call__: idx (0-based) after scanning from position k
RECURSIVE ScanIdx(_, _, _)
ScanIdx(lr_epochs, epoch, k) ==
    IF k = Len(lr_epochs) THEN k
    ELSE IF EpochBefore(epoch, lr_epochs[k + 1]) THEN k
    ELSE ScanIdx(lr_epochs, epoch, k + 1)

\* StepLR.__call__: self.lr[idx], an IndexError when idx is past the end
StepLRCall(s, epoch) ==
    LET idx == ScanIdx(s.lr_epochs, epoch, 0)
    IN  IF idx < Len(s.lr)
        THEN [ok |-> TRUE, v |-> s.lr[idx + 1], idx |-> idx]
        ELSE [ok |-> FALSE, v |-> 0, idx |-> idx]

\* StepLR.state_dict
StepLRStateDict(s) == [lr |-> s.lr, lr_epochs |-> s.lr_epochs]

-----------------------------------------------------------------------------
\* Optimizer.__init__

NoCoef == [given |-> FALSE, v |-> <<>>]
GivenCoef(v) == [given |-> TRUE, v |-> v]

\* `if not (isinstance(params, list) or isinstance(params, tuple)): params = [params]`
NGroups(params) == IF params.is_list THEN params.n ELSE 1

\* a constructor that keeps the coef it is given
OptimizerCoefKept(params, coefa) ==
    IF coefa.given THEN coefa.v ELSE [i \in 1..NGroups(params) |-> 1]

\* `coef = [1.0] * len(params)`
OptimizerCoef(params, coefa) == [i \in 1..NGroups(params) |-> 1]

\* `param_groups.append({"params": param, "lr": 0})`
OptimizerParamGroups(params) == [i \in 1..NGroups(params) |-> [lr |-> 0]]

\* optim.Adam(param_groups, weight_decay=0): no update has run yet
AdamState(params) == [i \in 1..NGroups(params) |-> [step |-> 0, used_lr |-> 0]]

Unset == [set |-> FALSE, v |-> 0]
SetTo(v) == [set |-> TRUE, v |-> v]

-----------------------------------------------------------------------------
\* Gradients.  An element is a number or NaN; p.grad is None or a vector.

Num(v) == [nan |-> FALSE, v |-> v]
NaN == [nan |-> TRUE, v |-> 0]
NoGrad == [has |-> FALSE, data |-> <<>>]
Grad(data) == [has |-> TRUE, data |-> data]

\* x < bound and x > bound on floats: every comparison with NaN is false
Lt(x, bound) == ~x.nan /\ x.v < bound
Gt(x, bound) == ~x.nan /\ x.v > bound

\* the first pass of clip alone
ClipElemLowOnly(x, low, high) == IF Lt(x, low) THEN Num(low) ELSE x

\* the two masked assignments of clip, on one element
ClipElem(x, low, high) ==
    LET a == IF Lt(x, low) THEN Num(low) ELSE x
    IN  IF Gt(a, high) THEN Num(high) ELSE a

\* the loops of clip: the parameters whose grad is not None, element by element
ClipGrads(gs, low, high) ==
    [p \in DOMAIN gs |->
        IF gs[p].has
        THEN Grad([j \in DOMAIN gs[p].data |-> ClipElem(gs[p].data[j], low, high)])
        ELSE gs[p]]

\* Optimizer.clip: `low, high = self.clip_low, self.clip_high` needs both attributes
ClipCall(gs, low, high) ==
    IF low.set /\ high.set
    THEN [err |-> "none", grads |-> ClipGrads(gs, low.v, high.v)]
    ELSE [err |-> "AttributeError", grads |-> gs]

-----------------------------------------------------------------------------
\* Optimizer.step

\* the param_group loop of step; self.coef[i] past the end of coef raises
SetRates(groups, lr, cf) ==
    [i \in DOMAIN groups |->
        IF i <= Len(cf)
        THEN [groups[i] EXCEPT !.lr = lr * cf[i]]
        ELSE groups[i]]

\* self.opt.step(): every group is updated at the rate it holds
OptStep(groups, state) ==
    [i \in DOMAIN state |->
        [step |-> state[i].step + 1, used_lr |-> groups[i].lr]]

\* the underlying update run before the rates are set
RatesThenUpdateSwapped(groups, state, lr, cf) ==
    [groups |-> SetRates(groups, lr, cf), state |-> OptStep(groups, state)]

\* lines 132-134: set every group's rate, then self.opt.step()
RatesThenUpdate(groups, state, lr, cf) ==
    LET g == SetRates(groups, lr, cf)
    IN  [groups |-> g, state |-> OptStep(g, state)]

\* Optimizer.step(epoch) on the wrapper w
StepCall(w, epoch) ==
    LET c == IF w.clip_grads THEN ClipCall(w.grads, w.clip_low, w.clip_high)
             ELSE [err |-> "none", grads |-> w.grads]
        l == StepLRCall(w.lr_func, epoch)
        u == RatesThenUpdate(w.param_groups, w.opt_state, l.v, w.coef)
    IN  IF c.err # "none"
        THEN [err |-> c.err, ret |-> 0, grads |-> c.grads,
              param_groups |-> w.param_groups, opt_state |-> w.opt_state]
        ELSE IF ~l.ok
        THEN [err |-> "IndexError", ret |-> 0, grads |-> c.grads,
              param_groups |-> w.param_groups, opt_state |-> w.opt_state]
        ELSE IF Len(w.coef) < Len(w.param_groups)
        THEN [err |-> "IndexError", ret |-> 0, grads |-> c.grads,
              param_groups |-> SetRates(w.param_groups, l.v, w.coef),
              opt_state |-> w.opt_state]
        ELSE [err |-> "none", ret |-> l.v, grads |-> c.grads,
              param_groups |-> u.groups, opt_state |-> u.state]

-----------------------------------------------------------------------------
\* Optimizer.state_dict and Optimizer.load_state_dict

\* self.opt.state_dict()
OptStateDict(groups, state) == [state |-> state, param_groups |-> groups]

\* Optimizer.state_dict
StateDictCall(w) ==
    [lr_func |-> StepLRStateDict(w.lr_func),
     coef |-> w.coef,
     opt_state |-> OptStateDict(w.param_groups, w.opt_state)]

\* self.opt.load_state_dict(s): torch reads s['param_groups'] and s['state'] and
\* refuses a snapshot with another number of groups
OptLoadStateDict(groups, state, s) ==
    IF ~({"param_groups", "state"} \subseteq DOMAIN s)
    THEN [err |-> "KeyError", groups |-> groups, state |-> state]
    ELSE IF Len(s.param_groups) # Len(groups)
    THEN [err |-> "ValueError", groups |-> groups, state |-> state]
    ELSE [err |-> "none", groups |-> s.param_groups, state |-> s.state]

\* the restore left commented out in the source: all three fields
LoadStateDictSymmetric(w, s) ==
    IF ~({"coef", "lr_func", "opt_state"} \subseteq DOMAIN s)
    THEN [err |-> "KeyError", coef |-> w.coef, lr_func |-> w.lr_func,
          param_groups |-> w.param_groups, opt_state |-> w.opt_state]
    ELSE LET r == OptLoadStateDict(w.param_groups, w.opt_state, s.opt_state)
         IN  [err |-> r.err, coef |-> s.coef,
              lr_func |-> [made |-> TRUE, lr |-> s.lr_func.lr,
                           lr_epochs |-> s.lr_func.lr_epochs],
              param_groups |-> r.groups, opt_state |-> r.state]

\* Optimizer.load_state_dict: `self.opt.load_state_dict(opt_state)` and nothing else
LoadStateDictCall(w, s) ==
    LET r == OptLoadStateDict(w.param_groups, w.opt_state, s)
    IN  [err |-> r.err, coef |-> w.coef, lr_func |-> w.lr_func,
         param_groups |-> r.groups, opt_state |-> r.state]

-----------------------------------------------------------------------------
\* The state outside the part a specification exercises.

NoSnapshot == [have |-> FALSE, s |-> [coef |-> <<>>]]
NoSteps == [epochs |-> <<>>, rets |-> <<>>]

OptimizerIdle ==
    /\ coef_arg = NoCoef
    /\ params_arg = [is_list |-> FALSE, n |-> 1]
    /\ coef = <<>>
    /\ clip_grads = FALSE
    /\ clip_low = Unset
    /\ clip_high = Unset
    /\ param_groups = <<>>
    /\ opt_state = <<>>
    /\ grads = <<>>
    /\ steps = NoSteps
    /\ snap = NoSnapshot

LoaderIdle ==
    /\ net = <<>>
    /\ pretrain = <<>>
    /\ net0 = <<>>

ToLongIdle ==
    /\ heap = <<>>
    /\ root = 0
    /\ heap0 = <<>>
    /\ result = 0

-----------------------------------------------------------------------------
\* The Optimizer wrapper: construction, then any calls of its methods.

ParamsArgs ==
    {[is_list |-> FALSE, n |-> 1]} \cup {[is_list |-> TRUE, n |-> k] : k \in 1..MaxGroups}

\* the coef arguments tried: none, or one coefficient i + 1 for group i
CoefArgs(params) == {NoCoef, GivenCoef([i \in 1..NGroups(params) |-> i + 1])}

\* the epochs tried: the first, those around every threshold, and a late one
EpochInputs ==
    {0, FarEpoch} \cup
    UNION {{ConfigLrEpochs[i] - 1, ConfigLrEpochs[i], ConfigLrEpochs[i] + 1} :
             i \in DOMAIN ConfigLrEpochs}

\* the wrapper as the methods see it
Self ==
    [coef |-> coef, lr_func |-> lr_func, clip_grads |-> clip_grads,
     clip_low |-> clip_low, clip_high |-> clip_high,
     param_groups |-> param_groups, opt_state |-> opt_state, grads |-> grads]

\* Optimizer.__init__(params, coef): "clip_grads" is not in config
Init ==
    /\ params_arg \in ParamsArgs
    /\ coef_arg \in CoefArgs(params_arg)
    /\ coef = OptimizerCoef(params_arg, coef_arg)
    /\ lr_func = StepLRInit(ConfigLr, ConfigLrEpochs).obj
    /\ param_groups = OptimizerParamGroups(params_arg)
    /\ opt_state = AdamState(params_arg)
    /\ clip_grads = FALSE
    /\ clip_low = Unset
    /\ clip_high = Unset
    /\ grads = [i \in 1..NGroups(params_arg) |-> NoGrad]
    /\ steps = NoSteps
    /\ snap = NoSnapshot
    /\ ret = 0
    /\ err = "none"
    /\ last = [op |-> "init"]
    /\ LoaderIdle
    /\ ToLongIdle

Step(epoch) ==
    /\ lr_func.made
    /\ Len(steps.epochs) < MaxSteps
    /\ LET r == StepCall(Self, epoch)
       IN  /\ grads' = r.grads
           /\ param_groups' = r.param_groups
           /\ opt_state' = r.opt_state
           /\ err' = r.err
           /\ ret' = r.ret
    /\ steps' = [epochs |-> Append(steps.epochs, epoch),
                  rets |-> Append(steps.rets, ret')]
    /\ last' = [op |-> "step", epoch |-> epoch]
    /\ UNCHANGED <<coef_arg, params_arg, coef, lr_func, clip_grads, clip_low,
                   clip_high, snap, loadVars, longVars>>

Clip ==
    /\ lr_func.made
    /\ LET r == ClipCall(grads, clip_low, clip_high)
       IN  /\ grads' = r.grads
           /\ err' = r.err
    /\ last' = [op |-> "clip", before |-> grads]
    /\ UNCHANGED <<coef_arg, params_arg, coef, lr_func, clip_grads, clip_low,
                   clip_high, param_groups, opt_state, steps, snap, ret,
                   loadVars, longVars>>

StateDict ==
    /\ lr_func.made
    /\ snap' = [have |-> TRUE, s |-> StateDictCall(Self)]
    /\ err' = "none"
    /\ last' = [op |-> "state_dict"]
    /\ UNCHANGED <<coef_arg, params_arg, coef, lr_func, clip_grads, clip_low,
                   clip_high, param_groups, opt_state, grads, steps, ret,
                   loadVars, longVars>>

\* a snapshot of another wrapper: other coefficients, another schedule
ForeignSnapshot ==
    [lr_func |-> [lr |-> <<7, 5, 3>>, lr_epochs |-> <<1, 2>>],
     coef |-> [i \in DOMAIN coef |-> 3],
     opt_state |-> [state |-> [i \in DOMAIN opt_state |-> [step |-> 9, used_lr |-> 7]],
                    param_groups |-> [i \in DOMAIN param_groups |-> [lr |-> 7]]]]

\* the snapshots handed to load_state_dict: the wrapper's own last snapshot, its
\* opt_state field alone, those of another wrapper, one of a wrapper with one
\* more group
LoadInputs ==
    (IF snap.have THEN {snap.s, snap.s.opt_state} ELSE {})
    \cup {ForeignSnapshot, ForeignSnapshot.opt_state,
          [state |-> Append(opt_state, [step |-> 0, used_lr |-> 0]),
           param_groups |-> Append(param_groups, [lr |-> 0])]}

LoadStateDict(s) ==
    /\ lr_func.made
    /\ LET r == LoadStateDictCall(Self, s)
       IN  /\ coef' = r.coef
           /\ lr_func' = r.lr_func
           /\ param_groups' = r.param_groups
           /\ opt_state' = r.opt_state
           /\ err' = r.err
    /\ last' = [op |-> "load_state_dict", arg |-> s, coef |-> coef, lr_func |-> lr_func]
    /\ UNCHANGED <<coef_arg, params_arg, clip_grads, clip_low, clip_high, grads,
                   steps, snap, ret, loadVars, longVars>>

StepAny == \E epoch \in EpochInputs : Step(epoch)
LoadStateDictAny == \E s \in LoadInputs : LoadStateDict(s)

Next == StepAny \/ Clip \/ StateDict \/ LoadStateDictAny

Spec == Init /\ [][Next]_vars

-----------------------------------------------------------------------------
\* Claims about the Optimizer wrapper, under Spec.

Increasing(q) == \A k \in 1..(Len(q) - 1) : q[k] < q[k + 1]

\* C2: step returns the first rate for every epoch below the threshold 32 and
\* the second for every epoch from 32 on, and in a run of calls with increasing
\* epochs the first rate is never returned after the second.
C2_RateChangesAtThreshold ==
    \A i \in DOMAIN steps.epochs :
        /\ steps.epochs[i] < ConfigLrEpochs[1] => steps.rets[i] = ConfigLr[1]
        /\ steps.epochs[i] >= ConfigLrEpochs[1] => steps.rets[i] = ConfigLr[2]
        /\ \A j \in DOMAIN steps.epochs :
               (Increasing(steps.epochs) /\ i < j /\ steps.rets[i] = ConfigLr[2])
                   => steps.rets[j] # ConfigLr[1]

C2_Witness ==
    /\ steps.epochs = <<ConfigLrEpochs[1] - 1, ConfigLrEpochs[1]>>
    /\ steps.rets = <<ConfigLr[1], ConfigLr[2]>>

\* C3: a step call gives every group i the rate schedule(epoch) * coef[i], the
\* underlying update then runs at that rate, the call returns schedule(epoch),
\* and coef and the schedule are what they were.
C3_StepSetsRates ==
    [][(last'.op = "step" /\ steps' # steps) =>
          /\ err' = "none"
          /\ ret' = StepLRCall(lr_func, last'.epoch).v
          /\ DOMAIN param_groups' = DOMAIN param_groups
          /\ \A i \in DOMAIN param_groups :
                 /\ param_groups'[i].lr = ret' * coef[i]
                 /\ opt_state'[i].used_lr = ret' * coef[i]
                 /\ opt_state'[i].step = opt_state[i].step + 1
          /\ coef' = coef
          /\ lr_func' = lr_func]_vars

C3_Witness ==
    /\ last.op = "step"
    /\ steps.rets = <<ConfigLr[1], ConfigLr[2]>>
    /\ Len(param_groups) = 2
    /\ param_groups[2].lr = ConfigLr[2]
    /\ opt_state[2].used_lr = ConfigLr[2]

\* C6: load_state_dict of the snapshot state_dict() returned succeeds and leaves
\* the underlying optimizer's state equal to the snapshotted one.
C6_SnapshotRoundTrip ==
    (last.op = "load_state_dict" /\ snap.have /\ last.arg = snap.s) =>
        /\ err = "none"
        /\ opt_state = snap.s.opt_state.state
        /\ param_groups = snap.s.opt_state.param_groups

\* C7: state_dict() exports exactly lr_func, coef and opt_state, and after any
\* load_state_dict call coef and the schedule are what they were before it.
C7_LoadKeepsCoefAndSchedule ==
    /\ snap.have => DOMAIN snap.s = {"lr_func", "coef", "opt_state"}
    /\ last.op = "load_state_dict" => (coef = last.coef /\ lr_func = last.lr_func)

C7_Witness ==
    /\ last.op = "load_state_dict"
    /\ "coef" \in DOMAIN last.arg
    /\ last.arg.coef # coef
    /\ last.arg.lr_func # StepLRStateDict(lr_func)

\* C10: whatever coef the constructor is given, the wrapper holds a coefficient
\* 1.0 for every group, and right after a step every group's rate is the rate
\* the step returned.
C10_CoefArgumentIgnored ==
    /\ coef = [i \in DOMAIN param_groups |-> 1]
    /\ last.op = "step" => \A i \in DOMAIN param_groups : param_groups[i].lr = ret

C10_Witness ==
    /\ coef_arg.given
    /\ coef_arg.v = <<2, 3>>
    /\ last.op = "step"
    /\ ret = ConfigLr[1]
    /\ param_groups[2].lr = ConfigLr[1]

-----------------------------------------------------------------------------
\* StepLR on its own: one schedule is constructed from any rates and thresholds
\* and then evaluated at any epoch.

RateValues == {ConfigLr[i] : i \in DOMAIN ConfigLr}
RateInputs == SeqOf(RateValues, 0, MaxThresholds + 2)
ThresholdInputs == SeqOf(0..MaxThreshold, 0, MaxThresholds) \cup {ConfigLrEpochs}
CallEpochs == 0..(ConfigLrEpochs[1] + 1) \cup {FarEpoch}

InitStepLR ==
    /\ lr_func = NoStepLR
    /\ ret = 0
    /\ err = "none"
    /\ last = [op |-> "init"]
    /\ OptimizerIdle
    /\ LoaderIdle
    /\ ToLongIdle

\* StepLR(lr, lr_epochs): a failed assert leaves no object
NewStepLR(lr, lr_epochs) ==
    /\ ~lr_func.made
    /\ LET r == StepLRInit(lr, lr_epochs)
       IN  /\ lr_func' = IF r.ok THEN r.obj ELSE lr_func
           /\ err' = IF r.ok THEN "none" ELSE "AssertionError"
    /\ last' = [op |-> "StepLR", nlr |-> Len(lr), nep |-> Len(lr_epochs)]
    /\ UNCHANGED <<ret, optVars, loadVars, longVars>>

\* schedule(epoch)
CallStepLR(epoch) ==
    /\ lr_func.made
    /\ LET r == StepLRCall(lr_func, epoch)
       IN  /\ ret' = r.v
           /\ err' = IF r.ok THEN "none" ELSE "IndexError"
    /\ last' = [op |-> "call", epoch |-> epoch]
    /\ UNCHANGED <<lr_func, optVars, loadVars, longVars>>

NewStepLRAny == \E lr \in RateInputs, lr_epochs \in ThresholdInputs : NewStepLR(lr, lr_epochs)
CallStepLRAny == \E epoch \in CallEpochs : CallStepLR(epoch)

NextStepLR == NewStepLRAny \/ CallStepLRAny

SpecStepLR == InitStepLR /\ [][NextStepLR]_vars

\* the smallest 0-based idx with epoch < thresholds[idx], or len(thresholds)
SmallestIdx(thresholds, epoch) ==
    IF \E i \in DOMAIN thresholds : epoch < thresholds[i]
    THEN (CHOOSE i \in DOMAIN thresholds :
              /\ epoch < thresholds[i]
              /\ \A j \in 1..(i - 1) : ~(epoch < thresholds[j])) - 1
    ELSE Len(thresholds)

\* C1: a schedule with len(rates) = len(thresholds) + 1 returns rates[idx] for
\* the smallest idx with epoch < thresholds[idx], or idx = len(thresholds) when
\* there is none, sorted thresholds or not; with rates [1e-3, 1e-4] and
\* thresholds [32] that is the first rate below epoch 32 and the second from 32.
C1_ScheduleValue ==
    last.op = "call" =>
        /\ err = "none"
        /\ ret = lr_func.lr[SmallestIdx(lr_func.lr_epochs, last.epoch) + 1]
        /\ (lr_func.lr = ConfigLr /\ lr_func.lr_epochs = ConfigLrEpochs) =>
               ret = IF last.epoch < 32 THEN 1000 ELSE 100

C1_Witness ==
    /\ last.op = "call"
    /\ lr_func.lr_epochs = <<1, 0>>
    /\ lr_func.lr = <<1000, 100, 100>>
    /\ last.epoch = 0
    /\ ret = 1000

\* C8: constructing a StepLR fails exactly when len(rates) # len(thresholds) + 1
\* and then no schedule exists; every schedule that exists has one rate more
\* than thresholds, and evaluating it never indexes past the end of rates.
C8_LengthsValidated ==
    /\ lr_func.made => Len(lr_func.lr) = Len(lr_func.lr_epochs) + 1
    /\ last.op = "StepLR" =>
           IF last.nlr = last.nep + 1
           THEN err = "none" /\ lr_func.made
           ELSE err = "AssertionError" /\ ~lr_func.made
    /\ last.op = "call" => err # "IndexError"

C8_Witness ==
    /\ last.op = "StepLR"
    /\ last.nlr = 3
    /\ last.nep = 1
    /\ err = "AssertionError"
    /\ ~lr_func.made

-----------------------------------------------------------------------------
\* clip on its own: a wrapper whose config carries clip_grads, clip_low and
\* clip_high, over one or two parameters with any gradients.

GradValues == {Num(v) : v \in (-GradBound)..GradBound} \cup {NaN}
ParamGrads == {NoGrad} \cup {Grad(d) : d \in SeqOf(GradValues, 1, MaxGradLen)}
ScalarGrads == {NoGrad} \cup {Grad(<<x>>) : x \in GradValues}
GradInputs == {<<g>> : g \in ParamGrads} \cup {<<g, h>> : g \in ParamGrads, h \in ScalarGrads}
ClipBounds == (1 - GradBound)..(GradBound - 1)

\* Optimizer.__init__ with "clip_grads" in config, after a backward pass
InitClip ==
    /\ params_arg = [is_list |-> FALSE, n |-> 1]
    /\ coef_arg = NoCoef
    /\ coef = OptimizerCoef(params_arg, coef_arg)
    /\ lr_func = StepLRInit(ConfigLr, ConfigLrEpochs).obj
    /\ param_groups = OptimizerParamGroups(params_arg)
    /\ opt_state = AdamState(params_arg)
    /\ clip_grads = TRUE
    /\ \E low \in ClipBounds, high \in ClipBounds :
           clip_low = SetTo(low) /\ clip_high = SetTo(high)
    /\ grads \in GradInputs
    /\ steps = NoSteps
    /\ snap = NoSnapshot
    /\ ret = 0
    /\ err = "none"
    /\ last = [op |-> "init"]
    /\ LoaderIdle
    /\ ToLongIdle

NextClip == Clip

SpecClip == InitClip /\ [][NextClip]_vars

InRange(y, low, high) == ~y.nan /\ low <= y.v /\ y.v <= high

\* C4 as stated: with low <= high, after clip() every element of every gradient
\* lies within [low, high].
C4_EveryElementInRange ==
    (last.op = "clip" /\ clip_low.v <= clip_high.v) =>
        \A p \in DOMAIN grads : \A j \in DOMAIN grads[p].data :
            InRange(grads[p].data[j], clip_low.v, clip_high.v)

\* C4, amended: with low <= high, after clip() every element that is not NaN lies
\* within [low, high]: one below low has become low, one above high has become
\* high, one inside is unchanged; a NaN element stays NaN, and a parameter
\* without a gradient is left without one.
C4_NumbersClamped ==
    (last.op = "clip" /\ clip_low.v <= clip_high.v) =>
        /\ err = "none"
        /\ DOMAIN grads = DOMAIN last.before
        /\ \A p \in DOMAIN grads :
               /\ grads[p].has = last.before[p].has
               /\ DOMAIN grads[p].data = DOMAIN last.before[p].data
               /\ \A j \in DOMAIN grads[p].data :
                      LET x == last.before[p].data[j]
                          y == grads[p].data[j]
                      IN  IF x.nan THEN y = x
                          ELSE /\ InRange(y, clip_low.v, clip_high.v)
                               /\ x.v < clip_low.v => y.v = clip_low.v
                               /\ x.v > clip_high.v => y.v = clip_high.v
                               /\ InRange(x, clip_low.v, clip_high.v) => y = x

C4_Witness ==
    /\ last.op = "clip"
    /\ clip_low.v = -1
    /\ clip_high.v = 1
    /\ last.before = <<Grad(<<NaN, Num(2)>>), Grad(<<Num(-2)>>)>>
    /\ grads = <<Grad(<<NaN, Num(1)>>), Grad(<<Num(-1)>>)>>

-----------------------------------------------------------------------------
\* load_pretrain.  A tensor is [shape, val]; an entry of pretrain_dict is a
\* tensor or an object wrapping one (`value.data`).

Tensor(shape, val) == [shape |-> shape, val |-> val]

\* pretrain_dict[key].size()
Size(v) == v.data.shape

\* `if not isinstance(value, torch.Tensor): value = value.data`
Unwrap(v) == v.data

\* the loop of load_pretrain with the size test dropped
MergedStateDictAnyShape(sd, pd) ==
    [k \in DOMAIN sd |-> IF k \in DOMAIN pd THEN Unwrap(pd[k]) ELSE sd[k]]

\* the loop of load_pretrain over pretrain_dict.keys(), on state_dict
MergedStateDict(sd, pd) ==
    [k \in DOMAIN sd |->
        IF k \in DOMAIN pd /\ Size(pd[k]) = sd[k].shape
        THEN Unwrap(pd[k])
        ELSE sd[k]]

\* net.load_state_dict(state_dict): strict, so other keys or another size raise;
\* otherwise every parameter takes the value given for its key
NetLoadStateDict(n, sd) ==
    IF DOMAIN sd # DOMAIN n \/ \E k \in DOMAIN n : sd[k].shape # n[k].shape
    THEN [err |-> "RuntimeError", net |-> n]
    ELSE [err |-> "none",
          net |-> [k \in DOMAIN n |-> Tensor(n[k].shape, sd[k].val)]]

\* load_pretrain(net, pretrain_dict)
LoadPretrainCall(n, pd) == NetLoadStateDict(n, MergedStateDict(n, pd))

Shapes == {<<MaxDim>>, <<1, MaxDim>>, <<MaxDim, 1>>}
Tensors == {Tensor(sh, v) : sh \in Shapes, v \in 0..MaxVal}
Entries == {[wrapped |-> w, data |-> t] : w \in BOOLEAN, t \in Tensors}
ExtraEntries == {[wrapped |-> FALSE, data |-> Tensor(<<MaxDim>>, MaxVal)]}

\* net has the keys "a" and "b" or fewer; pretrain_dict may also have "c"
NetInputs == UNION {[K -> Tensors] : K \in SUBSET {"a", "b"}}
PretrainInputs ==
    UNION {{[k \in K \cup X |-> IF k = "c" THEN e ELSE f[k]] :
                f \in [K -> Entries], e \in ExtraEntries} :
           K \in SUBSET {"a", "b"}, X \in SUBSET {"c"}}

InitLoad ==
    /\ net \in NetInputs
    /\ pretrain \in PretrainInputs
    /\ net0 = net
    /\ lr_func = NoStepLR
    /\ ret = 0
    /\ err = "none"
    /\ last = [op |-> "init"]
    /\ OptimizerIdle
    /\ ToLongIdle

LoadPretrain ==
    /\ last.op = "init"
    /\ LET r == LoadPretrainCall(net, pretrain)
       IN  /\ net' = r.net
           /\ err' = r.err
    /\ net0' = net
    /\ last' = [op |-> "load_pretrain"]
    /\ UNCHANGED <<pretrain, lr_func, ret, optVars, longVars>>

NextLoad == LoadPretrain

SpecLoad == InitLoad /\ [][NextLoad]_vars

\* C5: after load_pretrain every key of net holds pretrain_dict's value when
\* pretrain_dict has the key with exactly net's shape, and the value it had
\* otherwise; net gains no key, and nothing is raised.
C5_MatchingKeysLoaded ==
    last.op = "load_pretrain" =>
        /\ err = "none"
        /\ DOMAIN net = DOMAIN net0
        /\ \A k \in DOMAIN net0 :
               IF k \in DOMAIN pretrain /\ pretrain[k].data.shape = net0[k].shape
               THEN net[k] = pretrain[k].data
               ELSE net[k] = net0[k]

C5_Witness ==
    /\ last.op = "load_pretrain"
    /\ DOMAIN pretrain = {"a", "b", "c"}
    /\ net0 = [k \in {"a", "b"} |-> Tensor(<<1, MaxDim>>, 0)]
    /\ pretrain["a"].data = Tensor(<<1, MaxDim>>, 1)
    /\ pretrain["b"].data = Tensor(<<MaxDim, 1>>, 1)
    /\ net = [k \in {"a", "b"} |-> Tensor(<<1, MaxDim>>, IF k = "a" THEN 1 ELSE 0)]

-----------------------------------------------------------------------------
\* to_long.  The argument is a graph of objects; heap[a] is the object at
\* address a: a dict, list or tuple with its slots (the addresses it holds, a
\* dict's in key order), a tensor with its dtype, or anything else.

Leaf(kind, dtype) == [kind |-> kind, dtype |-> dtype, slots |-> <<>>]
Container(kind, slots) == [kind |-> kind, dtype |-> "", slots |-> slots]

\* `torch.is_tensor(data) and data.dtype == torch.int16`
IsInt16Tensor(obj) == obj.kind = "tensor" /\ obj.dtype = "int16"

\* a new object: its address is the next free one
Alloc(h, obj) == [heap |-> Append(h, obj), ref |-> Len(h) + 1]

\* the recursive call of the dict branch with its result thrown away
StoreSlotDropped(h, a, k, ref) == h

\* `data[key] = ...`: the dict at a is assigned in place
StoreSlot(h, a, k, ref) == [h EXCEPT ![a].slots[k] = ref]

RECURSIVE ToLong(_, _), ToLongDict(_, _, _), ToLongSeq(_, _, _, _)

\* `for key in data.keys(): data[key] = to_long(data[key])`, from key k on
ToLongDict(h, a, k) ==
    IF k > Len(h[a].slots) THEN h
    ELSE LET r == ToLong(h, h[a].slots[k])
         IN  ToLongDict(StoreSlot(r.heap, a, k, r.ref), a, k + 1)

\* `[to_long(x) for x in data]`, from item k on
ToLongSeq(h, items, k, acc) ==
    IF k > Len(items) THEN [heap |-> h, refs |-> acc]
    ELSE LET r == ToLong(h, items[k])
         IN  ToLongSeq(r.heap, items, k + 1, Append(acc, r.ref))

\* to_long(data): its three `if`s in turn; the heap after it and what it returns
ToLong(h, a) ==
    LET h1 == IF h[a].kind = "dict" THEN ToLongDict(h, a, 1) ELSE h
        s2 == IF h1[a].kind \in {"list", "tuple"}
              THEN LET q == ToLongSeq(h1, h1[a].slots, 1, <<>>)
                   IN  Alloc(q.heap, Container("list", q.refs))
              ELSE [heap |-> h1, ref |-> a]
    IN  IF IsInt16Tensor(s2.heap[s2.ref])
        THEN Alloc(s2.heap, Leaf("tensor", "int64"))
        ELSE s2

Leaves == {Leaf("tensor", "int16"), Leaf("tensor", "int64"), Leaf("other", "")}

\* a container holds nothing, one object or two, each made before it
SlotInputs(a) ==
    {<<>>} \cup {<<x>> : x \in 1..(a - 1)} \cup {<<x, y>> : x \in 1..(a - 1), y \in 1..(a - 1)}

ObjectInputs(a) ==
    Leaves \cup {Container(k, q) : k \in {"dict", "list", "tuple"}, q \in SlotInputs(a)}

HeapInputs ==
    UNION {{h \in [1..n -> UNION {ObjectInputs(a) : a \in 1..n}] :
                \A a \in 1..n : h[a] \in ObjectInputs(a)} : n \in {MaxObjects}}

InitToLong ==
    /\ heap \in HeapInputs
    /\ root = Len(heap)
    /\ heap0 = heap
    /\ result = 0
    /\ lr_func = NoStepLR
    /\ ret = 0
    /\ err = "none"
    /\ last = [op |-> "init"]
    /\ OptimizerIdle
    /\ LoaderIdle

CallToLong ==
    /\ last.op = "init"
    /\ LET r == ToLong(heap, root)
       IN  /\ heap' = r.heap
           /\ result' = r.ref
    /\ heap0' = heap
    /\ last' = [op |-> "to_long"]
    /\ UNCHANGED <<root, lr_func, ret, err, optVars, loadVars>>

NextToLong == CallToLong

SpecToLong == InitToLong /\ [][NextToLong]_vars

\* the value at address a, read through the references
RECURSIVE View(_, _)
View(h, a) ==
    [kind |-> h[a].kind, dtype |-> h[a].dtype,
     items |-> [k \in DOMAIN h[a].slots |-> View(h, h[a].slots[k])]]

\* the value at address a with every int16 tensor widened; a list or tuple
\* comes back as a list
RECURSIVE Widened(_, _)
Widened(h, a) ==
    [kind |-> IF h[a].kind = "tuple" THEN "list" ELSE h[a].kind,
     dtype |-> IF h[a].dtype = "int16" THEN "int64" ELSE h[a].dtype,
     items |-> [k \in DOMAIN h[a].slots |-> Widened(h, h[a].slots[k])]]

RECURSIVE Reachable(_, _)
Reachable(h, a) == {a} \cup UNION {Reachable(h, h[a].slots[k]) : k \in DOMAIN h[a].slots}

\* C9: to_long returns the argument's structure with every int16 tensor leaf
\* widened to int64 and every other leaf as it was.  A dict is changed in place:
\* every dict reached from the argument, also through a list or tuple, holds the
\* widened entries afterwards, and a dict argument is itself what is returned.
\* A list or tuple is returned as a new list, and no list, tuple or tensor the
\* caller had is changed.
C9_DictInPlaceSequenceRebuilt ==
    last.op = "to_long" =>
        /\ View(heap, result) = Widened(heap0, root)
        /\ heap0[root].kind = "dict" => result = root
        /\ heap0[root].kind \in {"list", "tuple"} =>
               (result \notin DOMAIN heap0 /\ heap[result].kind = "list")
        /\ \A a \in DOMAIN heap0 :
               IF heap0[a].kind = "dict" /\ a \in Reachable(heap0, root)
               THEN View(heap, a) = Widened(heap0, a)
               ELSE heap[a] = heap0[a]

C9_Witness ==
    /\ last.op = "to_long"
    /\ heap0 = <<Leaf("tensor", "int16"), Container("dict", <<1>>), Container("tuple", <<2, 1>>)>>
    /\ heap[2] = Container("dict", <<4>>)
    /\ heap[4] = Leaf("tensor", "int64")
    /\ heap[3] = heap0[3]
    /\ result = 6
    /\ heap[6] = Container("list", <<2, 5>>)

====
